---- MODULE Spec2Model ----
(***************************************************************************)
(* Repository / service layer of the order-management backend: the generic *)
(* CRUD + soft-delete repository (app/repositories/base_repository.py),    *)
(* the entity before-write hooks (app/models/*.py), the service-level      *)
(* validators (app/utils/validation.py), the services built on them        *)
(* (app/services/*.py) and the JSON create-order route (app/api/routes.py).*)
(*                                                                         *)
(* One behaviour follows one table (kind = "Order", "Customer" or "User"). *)
(* Strings are tuples of one-character strings, so that length, character  *)
(* classes, trimming, escaping and lower-casing are computed.  Dates and   *)
(* timestamps are day numbers read from one clock (now).  The audit        *)
(* columns created_at / updated_at are not modelled.                       *)
(***************************************************************************)
EXTENDS Integers, Sequences, FiniteSets, TLC

VARIABLES kind, store, nextId, now, last, snap, req

vars == <<kind, store, nextId, now, last, snap, req>>

(***************************************************************************)
(* Bounds                                                                  *)
(***************************************************************************)
MaxId == 2
MaxNow == 2

Ids == 1..MaxId
Days == 0..MaxNow

(***************************************************************************)
(* Python None / SQL NULL, and the absence of a row                        *)
(***************************************************************************)
\* None in a string-valued position: a tuple no string of the program equals
None == <<"None">>
\* None in a numeric, date or timestamp position
Null == -99
NoRow == [absent |-> TRUE]

Kinds == {"Order", "Customer", "User"}

(***************************************************************************)
(* Strings                                                                 *)
(***************************************************************************)
Upper == {"A","B","C","D","E","F","G","H","I","J","K","L","M",
          "N","O","P","Q","R","S","T","U","V","W","X","Y","Z"}
Lower == {"a","b","c","d","e","f","g","h","i","j","k","l","m",
          "n","o","p","q","r","s","t","u","v","w","x","y","z"}
Digit == {"0","1","2","3","4","5","6","7","8","9"}
Alnum == Upper \cup Lower \cup Digit
Space == {" "}

Rep(c, n) == [i \in 1..n |-> c]

\* str.lower() on the letters the model uses
LowerChar(c) ==
  CASE c = "A" -> "a" [] c = "B" -> "b" [] c = "C" -> "c" [] c = "D" -> "d"
    [] c = "E" -> "e" [] c = "T" -> "t" [] c = "U" -> "u" [] c = "X" -> "x"
    [] OTHER -> c

ToLower(s) == [i \in DOMAIN s |-> LowerChar(s[i])]

RECURSIVE LStrip(_)
LStrip(s) == IF Len(s) > 0 /\ Head(s) \in Space THEN LStrip(Tail(s)) ELSE s

RECURSIVE RStrip(_)
RStrip(s) ==
  IF Len(s) > 0 /\ s[Len(s)] \in Space THEN RStrip(SubSeq(s, 1, Len(s) - 1)) ELSE s

Strip(s) == RStrip(LStrip(s))

EscapeChar(c) ==
  CASE c = "&" -> <<"&","a","m","p",";">>
    [] c = "<" -> <<"&","l","t",";">>
    [] c = ">" -> <<"&","g","t",";">>
    [] c = "\"" -> <<"&","q","u","o","t",";">>
    [] c = "'" -> <<"&","#","x","2","7",";">>
    [] OTHER -> <<c>>

RECURSIVE HtmlEscape(_)
HtmlEscape(s) == IF Len(s) = 0 THEN <<>> ELSE EscapeChar(Head(s)) \o HtmlEscape(Tail(s))

sanitize_string(value) == IF value = None THEN None ELSE HtmlEscape(Strip(value))

AllIn(s, chars) == \A i \in DOMAIN s : s[i] \in chars

validate_alphanumeric(value, allow_empty) ==
  IF value = None \/ value = <<>> THEN allow_empty
  ELSE AllIn(value, Alnum)

\* max_length = Null means unbounded
validate_length(value, min_length, max_length) ==
  IF value = None THEN min_length = 0
  ELSE /\ Len(value) >= min_length
       /\ (max_length = Null \/ Len(value) <= max_length)

validate_date_not_in_past(value, today) ==
  IF value = Null THEN TRUE ELSE value >= today

validate_date_range(start_date, end_date) ==
  IF start_date = Null \/ end_date = Null THEN TRUE ELSE end_date >= start_date

validate_number_range(value, min_value, max_value) ==
  IF value = Null THEN TRUE
  ELSE /\ (min_value = Null \/ value >= min_value)
       /\ (max_value = Null \/ value <= max_value)

\* Python truthiness of a str-or-None column value
Truthy(v) == v # None /\ v # <<>>

\* ^[a-zA-Z0-9._%+-]+@[a-zA-Z0-9.-]+\.[a-zA-Z]{2,}$
EmailLocal == Alnum \cup {".", "_", "%", "+", "-"}
EmailDomain == Alnum \cup {".", "-"}
MatchesEmail(s) ==
  \E a \in DOMAIN s : \E d \in DOMAIN s :
    /\ s[a] = "@" /\ a > 1
    /\ \A i \in 1..(a - 1) : s[i] \in EmailLocal
    /\ d > a + 1 /\ s[d] = "."
    /\ \A i \in (a + 1)..(d - 1) : s[i] \in EmailDomain
    /\ Len(s) - d >= 2
    /\ \A i \in (d + 1)..Len(s) : s[i] \in Upper \cup Lower

\* ^\d{5}(?:-\d{4})?$
MatchesZip(s) ==
  \/ Len(s) = 5 /\ AllIn(s, Digit)
  \/ /\ Len(s) = 10 /\ s[6] = "-"
     /\ \A i \in (1..5) \cup (7..10) : s[i] \in Digit

\* ^[A-Za-z0-9_.\-]+$
UsernameChars == Alnum \cup {"_", ".", "-"}
MatchesUsername(s) == Len(s) > 0 /\ AllIn(s, UsernameChars)

(***************************************************************************)
(* Entities: the modelled columns of each table                            *)
(***************************************************************************)
OrderStrCols == {"log", "cust", "title", "logtype"}
OrderNumCols == {"print_n", "colorf", "weight", "subtotal", "sales_tax", "ship_frght",
                 "total", "datin", "artout", "dueout", "datout", "deleted_at"}
CustomerStrCols == {"cust_id", "customer", "customer_email", "zip"}
CustomerNumCols == {"deleted_at"}
UserStrCols == {"username", "email", "password_hash", "role"}
UserNumCols == {"deleted_at"}

StrCols(k) ==
  CASE k = "Order" -> OrderStrCols
    [] k = "Customer" -> CustomerStrCols
    [] k = "User" -> UserStrCols

NumCols(k) ==
  CASE k = "Order" -> OrderNumCols
    [] k = "Customer" -> CustomerNumCols
    [] k = "User" -> UserNumCols

Columns(k) == StrCols(k) \cup NumCols(k)

\* unique=True columns
UniqueCols(k) ==
  CASE k = "Order" -> {"log"}
    [] k = "Customer" -> {"cust_id"}
    [] k = "User" -> {"username", "email"}

\* model(): every column unset
NewEntity(k) == [c \in Columns(k) |-> IF c \in NumCols(k) THEN Null ELSE None]

valid_logtypes == {<<"T","R">>, <<"D","P">>, <<"A","A">>, <<"V","G">>,
                   <<"D","G">>, <<"G","M">>, <<"D","T","F">>, <<"P","P">>}
valid_roles == {<<"u","s","e","r">>, <<"a","d","m","i","n">>}

OrderNumericFields == {"print_n", "colorf", "weight", "subtotal", "sales_tax",
                       "ship_frght", "total"}

\* a validate_data without the tests on the numeric fields
OrderValidateDataNoNumbers(o, today) ==
  {f \in {"log"} : Truthy(o.log) /\
        (~validate_alphanumeric(o.log, FALSE) \/ ~validate_length(o.log, 5, 7))}
  \cup {f \in {"cust"} : Truthy(o.cust) /\
        (~validate_alphanumeric(o.cust, FALSE) \/ ~validate_length(o.cust, 5, 5))}
  \cup {f \in {"title"} : Truthy(o.title) /\ ~validate_length(o.title, 1, 256)}
  \cup {f \in {"logtype"} : Truthy(o.logtype) /\ o.logtype \notin valid_logtypes}
  \cup {f \in {"artout", "dueout"} : o[f] # Null /\ ~validate_date_not_in_past(o[f], today)}
  \cup {f \in {"dueout"} : o.datin # Null /\ o.dueout # Null /\
        ~validate_date_range(o.datin, o.dueout)}

\* Order.validate_data: the fields that get an error message
OrderValidateData(o, today) ==
  {f \in {"log"} : Truthy(o.log) /\
        (~validate_alphanumeric(o.log, FALSE) \/ ~validate_length(o.log, 5, 7))}
  \cup {f \in {"cust"} : Truthy(o.cust) /\
        (~validate_alphanumeric(o.cust, FALSE) \/ ~validate_length(o.cust, 5, 5))}
  \cup {f \in {"title"} : Truthy(o.title) /\ ~validate_length(o.title, 1, 256)}
  \cup {f \in OrderNumericFields : o[f] # Null /\ ~validate_number_range(o[f], 0, Null)}
  \cup {f \in {"logtype"} : Truthy(o.logtype) /\ o.logtype \notin valid_logtypes}
  \cup {f \in {"artout", "dueout"} : o[f] # Null /\ ~validate_date_not_in_past(o[f], today)}
  \cup {f \in {"dueout"} : o.datin # Null /\ o.dueout # Null /\
        ~validate_date_range(o.datin, o.dueout)}

\* Customer._validate_email / _validate_zip: empty passes
CustomerValidateEmail(v) == IF ~Truthy(v) THEN TRUE ELSE MatchesEmail(v)
CustomerValidateZip(v) == IF ~Truthy(v) THEN TRUE ELSE MatchesZip(v)

\* Customer.validate_data
CustomerValidateData(c) ==
  {f \in {"cust_id"} : Truthy(c.cust_id) /\
        (~validate_alphanumeric(c.cust_id, FALSE) \/ ~validate_length(c.cust_id, 5, 5))}
  \cup {f \in {"customer"} : Truthy(c.customer) /\ ~validate_length(c.customer, 1, 255)}
  \cup {f \in {"customer_email"} : Truthy(c.customer_email) /\
        ~CustomerValidateEmail(c.customer_email)}
  \cup {f \in {"zip"} : Truthy(c.zip) /\ ~CustomerValidateZip(c.zip)}

\* User._validate_email: empty fails
UserValidateEmail(v) == IF ~Truthy(v) THEN FALSE ELSE MatchesEmail(v)

\* User.validate_data
UserValidateData(u) ==
  {f \in {"username"} :
      IF Truthy(u.username)
      THEN ~validate_length(u.username, 3, 64) \/ ~MatchesUsername(u.username)
      ELSE TRUE}
  \cup {f \in {"email"} :
      IF Truthy(u.email) THEN ~UserValidateEmail(u.email) ELSE TRUE}
  \cup {f \in {"role"} : Truthy(u.role) /\ u.role \notin valid_roles}

\* validate_order / validate_customer / validate_user, the before_insert and
\* before_update listeners: a non-empty error map raises ValueError
ValidateData(k, e, today) ==
  CASE k = "Order" -> OrderValidateData(e, today)
    [] k = "Customer" -> CustomerValidateData(e)
    [] k = "User" -> UserValidateData(e)

\* generate_password_hash / check_password_hash
generate_password_hash(password) == <<"$">> \o password
check_password_hash(pwhash, password) == pwhash = generate_password_hash(password)

(***************************************************************************)
(* Repository reads                                                        *)
(***************************************************************************)
Exists(st, i) == st[i] # NoRow
Active(st, i) == st[i] # NoRow /\ st[i].deleted_at = Null

\* get_by_id without the deleted_at test
get_by_id_any(st, i) ==
  IF i \in DOMAIN st /\ st[i] # NoRow THEN st[i] ELSE NoRow

\* BaseRepository.get_by_id: the row, or NoRow for None
get_by_id(st, i) ==
  IF i \in DOMAIN st /\ st[i] # NoRow /\ st[i].deleted_at = Null THEN st[i] ELSE NoRow

\* BaseRepository.get_all / get_deleted / get_all_including_deleted: row ids
get_all(st) == {i \in DOMAIN st : st[i] # NoRow /\ st[i].deleted_at = Null}
get_deleted(st) == {i \in DOMAIN st : st[i] # NoRow /\ st[i].deleted_at # Null}
get_all_including_deleted(st) == {i \in DOMAIN st : st[i] # NoRow}

\* filter_by(col = v).filter(deleted_at IS NULL): ids of the matching rows
\* (col = NULL matches nothing in SQL)
MatchingActive(st, col, v) ==
  {i \in DOMAIN st : st[i] # NoRow /\ st[i].deleted_at = Null /\
                     v # None /\ st[i][col] = v}

\* BaseRepository.find_by on one column; scalar_one_or_none raises when
\* several rows match
find_by(st, col, v) ==
  LET m == MatchingActive(st, col, v) IN
  IF m = {} THEN [err |-> "none", id |-> 0]
  ELSE IF Cardinality(m) = 1 THEN [err |-> "none", id |-> CHOOSE i \in m : TRUE]
  ELSE [err |-> "MultipleResultsFound", id |-> 0]

\* BaseRepository.exists
exists(st, col, v) == MatchingActive(st, col, v) # {}

\* the log types OrderRepository.get_dueouts selects
DueLogtypes == {<<"T","R">>, <<"D","P">>, <<"A","A">>, <<"D","T","F">>}

\* a get_dueouts that does not test datout
DueMatchingAnyDatout(st, start, end) ==
  {i \in DOMAIN st :
     /\ st[i] # NoRow /\ st[i].deleted_at = Null
     /\ st[i].logtype \in DueLogtypes
     /\ st[i].dueout # Null
     /\ (start = Null \/ st[i].dueout >= start)
     /\ (end = Null \/ st[i].dueout <= end)}

\* the WHERE clauses of OrderRepository.get_dueouts: ids of the rows selected
DueMatching(st, start, end) ==
  {i \in DOMAIN st :
     /\ st[i] # NoRow /\ st[i].deleted_at = Null
     /\ st[i].logtype \in DueLogtypes
     /\ st[i].datout = Null
     /\ st[i].dueout # Null
     /\ (start = Null \/ st[i].dueout >= start)
     /\ (end = Null \/ st[i].dueout <= end)}

\* OrderRepository.get_dueouts: the lists ORDER BY dueout ASC may return
\* (rows with equal dueout come in either order)
get_dueouts(st, start, end) ==
  LET m == DueMatching(st, start, end) IN
  {r \in [1..Cardinality(m) -> m] :
     \A a \in DOMAIN r : \A b \in DOMAIN r :
       a < b => (r[a] # r[b] /\ st[r[a]].dueout <= st[r[b]].dueout)}

(***************************************************************************)
(* Repository writes.  Each returns the committed store (the old one after *)
(* a rollback), the exception raised ("none" if none), where it was raised,*)
(* the fields its message names and the id of the entity written.          *)
(***************************************************************************)
\* a copy that resets the attributes the payload does not name
SetAttrsReset(k, e, data) ==
  [c \in DOMAIN e |-> IF c \in DOMAIN data THEN data[c] ELSE NewEntity(k)[c]]

\* for key, value in data.items(): if hasattr(entity, key): setattr(...)
SetAttrs(k, e, data) ==
  [c \in DOMAIN e |-> IF c \in DOMAIN data THEN data[c] ELSE e[c]]

\* the unique indexes: NULLs never collide, every row of the table counts
Colliding(k, st, i, e) ==
  {c \in UniqueCols(k) : \E j \in DOMAIN st :
     j # i /\ st[j] # NoRow /\ e[c] # None /\ st[j][c] = e[c]}

UniqueViolation(k, st, i, e) == Colliding(k, st, i, e) # {}

\* Column(default='user') fills an unset role at INSERT, after the listener
InsertDefaults(k, e) ==
  IF k = "User" /\ e.role = None THEN [e EXCEPT !.role = <<"u","s","e","r">>] ELSE e

\* a flush into a table without unique indexes
FlushUnchecked(k, st, i, e, today, isInsert) ==
  IF ValidateData(k, e, today) # {}
  THEN [store |-> st, err |-> "ValueError", by |-> "hook", id |-> i,
        fields |-> ValidateData(k, e, today)]
  ELSE [store |-> [st EXCEPT ![i] = IF isInsert THEN InsertDefaults(k, e) ELSE e],
        err |-> "none", by |-> "none", id |-> i, fields |-> {}]

\* flush of one new or dirty entity: listener, then the statement
Flush(k, st, i, e, today, isInsert) ==
  IF ValidateData(k, e, today) # {}
  THEN [store |-> st, err |-> "ValueError", by |-> "hook", id |-> i,
        fields |-> ValidateData(k, e, today)]
  ELSE IF UniqueViolation(k, st, i, e)
  THEN [store |-> st, err |-> "IntegrityError", by |-> "store", id |-> i,
        fields |-> Colliding(k, st, i, e)]
  ELSE [store |-> [st EXCEPT ![i] = IF isInsert THEN InsertDefaults(k, e) ELSE e],
        err |-> "none", by |-> "none", id |-> i, fields |-> {}]

\* a create whose failed commit is not rolled back
RepoCreateNoRollback(k, st, nid, data, today) ==
  LET r == Flush(k, st, nid, SetAttrs(k, NewEntity(k), data), today, TRUE) IN
  IF r.err = "none" THEN r
  ELSE [r EXCEPT !.store = [st EXCEPT ![nid] = SetAttrs(k, NewEntity(k), data)]]

\* BaseRepository.create
RepoCreate(k, st, nid, data, today) ==
  Flush(k, st, nid, SetAttrs(k, NewEntity(k), data), today, TRUE)

\* an update whose statement is not checked against the unique indexes
RepoUpdateUnchecked(k, st, i, data, today) ==
  IF DOMAIN data \cap Columns(k) = {}
  THEN [store |-> st, err |-> "none", by |-> "none", id |-> i, fields |-> {}]
  ELSE FlushUnchecked(k, st, i, SetAttrs(k, st[i], data), today, FALSE)

\* BaseRepository.update: an entity with no attribute set is not flushed
RepoUpdate(k, st, i, data, today) ==
  IF DOMAIN data \cap Columns(k) = {}
  THEN [store |-> st, err |-> "none", by |-> "none", id |-> i, fields |-> {}]
  ELSE Flush(k, st, i, SetAttrs(k, st[i], data), today, FALSE)

\* BaseRepository.delete: deleted_at = datetime.now(), commit
RepoDelete(k, st, i, ts) ==
  Flush(k, st, i, [st[i] EXCEPT !.deleted_at = ts], ts, FALSE)

\* BaseRepository.restore: deleted_at = None, commit
RepoRestore(k, st, i, today) ==
  Flush(k, st, i, [st[i] EXCEPT !.deleted_at = Null], today, FALSE)

\* a hard_delete that only marks the row deleted
RepoHardDeleteSoft(k, st, i) ==
  [store |-> [st EXCEPT ![i] = [st[i] EXCEPT !.deleted_at = 0]], err |-> "none",
   by |-> "none", id |-> i, fields |-> {}]

\* BaseRepository.hard_delete
RepoHardDelete(k, st, i) ==
  [store |-> [st EXCEPT ![i] = NoRow], err |-> "none", by |-> "none", id |-> i,
   fields |-> {}]

(***************************************************************************)
(* Service-level validators (app/utils/validation.py).  Each returns the   *)
(* keys whose check appended an error and the sanitized dictionary; a      *)
(* non-empty error list raises ValueError.                                 *)
(***************************************************************************)
OrderSvcStrKeys == {"log", "cust", "title"}
OrderSvcKeys == {"log", "cust", "title", "print_n", "colorf", "logtype",
                 "datin", "artout", "dueout", "datout"}

OrderSvcKeyError(data, key, today) ==
  CASE key = "log" ->
         ~validate_alphanumeric(data[key], FALSE) \/ ~validate_length(data[key], 5, 5)
    [] key = "cust" ->
         ~validate_alphanumeric(data[key], FALSE) \/ ~validate_length(data[key], 5, 5)
    [] key = "title" -> ~validate_length(data[key], 1, 100)
    [] key = "print_n" -> data[key] # Null /\ ~validate_number_range(data[key], 1, Null)
    [] key = "colorf" -> data[key] # Null /\ ~validate_number_range(data[key], 0, Null)
    [] key = "logtype" -> data[key] \notin valid_logtypes
    [] key \in {"artout", "dueout"} ->
         data[key] # Null /\ ~validate_date_not_in_past(data[key], today)
    [] OTHER -> FALSE

validate_and_sanitize_order_data(data, today) ==
  LET errs == {key \in DOMAIN data \cap OrderSvcKeys : OrderSvcKeyError(data, key, today)}
      kept == (DOMAIN data \cap OrderSvcKeys) \ errs
  IN [errors |-> errs,
      data |-> [key \in kept |-> IF key \in OrderSvcStrKeys
                                 THEN sanitize_string(data[key]) ELSE data[key]]]

CustomerSvcOtherKeys == {"address", "city", "state", "zip", "phone", "email", "contact"}

validate_and_sanitize_customer_data(data) ==
  LET errs ==
        {key \in DOMAIN data \cap {"cust_id"} :
            ~validate_alphanumeric(data[key], FALSE) \/ ~validate_length(data[key], 5, 5)}
        \cup {key \in DOMAIN data \cap {"name"} : ~validate_length(data[key], 1, 100)}
      kept == ((DOMAIN data \cap {"cust_id", "name"}) \ errs)
              \cup {key \in DOMAIN data \cap CustomerSvcOtherKeys : data[key] # None}
  IN [errors |-> errs, data |-> [key \in kept |-> sanitize_string(data[key])]]

\* a validate_and_sanitize_user_data that also returns the email
validate_and_sanitize_user_data_with_email(data) ==
  LET errs ==
        {key \in DOMAIN data \cap {"username"} :
            ~validate_length(data[key], 3, 64) \/ ~MatchesUsername(data[key])}
        \cup {key \in DOMAIN data \cap {"password"} : ~validate_length(data[key], 8, Null)}
        \cup {key \in DOMAIN data \cap {"role"} : data[key] \notin valid_roles}
      kept == (DOMAIN data \cap {"username", "email", "password", "role"}) \ errs
  IN [errors |-> errs,
      data |-> [key \in kept |-> IF key = "username"
                                 THEN ToLower(sanitize_string(data[key])) ELSE data[key]]]

validate_and_sanitize_user_data(data) ==
  LET errs ==
        {key \in DOMAIN data \cap {"username"} :
            ~validate_length(data[key], 3, 64) \/ ~MatchesUsername(data[key])}
        \cup {key \in DOMAIN data \cap {"password"} : ~validate_length(data[key], 8, Null)}
        \cup {key \in DOMAIN data \cap {"role"} : data[key] \notin valid_roles}
      kept == (DOMAIN data \cap {"username", "password", "role"}) \ errs
  IN [errors |-> errs,
      data |-> [key \in kept |-> IF key = "username"
                                 THEN ToLower(sanitize_string(data[key])) ELSE data[key]]]

\* the validator_func injected into each service
validator_func(k, data, today) ==
  CASE k = "Order" -> validate_and_sanitize_order_data(data, today)
    [] k = "Customer" -> validate_and_sanitize_customer_data(data)
    [] k = "User" -> validate_and_sanitize_user_data(data)

(***************************************************************************)
(* Services                                                                *)
(***************************************************************************)
Rejected(st, i, errors) ==
  [store |-> st, err |-> "ValueError", by |-> "validator", id |-> i, fields |-> errors]

\* create that validates only after the repository call
ServiceCreateThenValidate(k, st, nid, data, today) ==
  LET v == validator_func(k, data, today)
      r == RepoCreate(k, st, nid, data, today)
  IN IF v.errors # {} THEN Rejected(r.store, 0, v.errors) ELSE r

\* BaseService.create
ServiceCreate(k, st, nid, data, today) ==
  LET v == validator_func(k, data, today) IN
  IF v.errors # {} THEN Rejected(st, 0, v.errors)
  ELSE RepoCreate(k, st, nid, v.data, today)

\* BaseService.update
ServiceUpdate(k, st, i, data, today) ==
  LET v == validator_func(k, data, today) IN
  IF v.errors # {} THEN Rejected(st, i, v.errors)
  ELSE RepoUpdate(k, st, i, v.data, today)

\* UserService.create_user, the username pre-check on the validated
\* dictionary v
CreateUserCheckUsername(st, v) ==
  IF find_by(st, "username", v["username"]).id # 0
  THEN [store |-> st, err |-> "ValueError", by |-> "precheck", id |-> 0,
        fields |-> {"username"}]
  ELSE [store |-> st, err |-> "none", by |-> "none", id |-> 0, fields |-> {}]

\* UserService.create_user after the username pre-check, up to its first
\* commit: the email lookup, then the insert of the row without password
CreateUserInsert(st, nid, v, today) ==
  IF "email" \notin DOMAIN v
  THEN [store |-> st, err |-> "KeyError", by |-> "code", id |-> 0, fields |-> {"email"}]
  ELSE IF find_by(st, "email", v["email"]).id # 0
  THEN [store |-> st, err |-> "ValueError", by |-> "precheck", id |-> 0,
        fields |-> {"email"}]
  ELSE RepoCreate("User", st, nid, [key \in {"username", "email", "role"} |-> v[key]],
                  today)

\* UserService.create_user, its second commit: user.set_password(password)
\* and repository.update(user, {}) on the row with id i
CreateUserSetPassword(st, i, v, today) ==
  Flush("User", st, i,
        [st[i] EXCEPT !.password_hash = generate_password_hash(v["password"])],
        today, FALSE)

\* UserService.create_user after the username pre-check
CreateUserAfterCheck(st, nid, v, today) ==
  LET c == CreateUserInsert(st, nid, v, today)
  IN IF c.err # "none" THEN c ELSE CreateUserSetPassword(c.store, nid, v, today)

\* the sanitized and validated arguments of create_user
CreateUserValidated(username, email, password, role) ==
  validate_and_sanitize_user_data(
    [username |-> sanitize_string(username), email |-> sanitize_string(email),
     password |-> password, role |-> sanitize_string(role)])

\* a create_user that reads the email key only after its insert commit
create_user_insert_first(st, nid, username, email, password, role, today) ==
  LET c == RepoCreate("User", st, nid,
                      [username |-> ToLower(sanitize_string(username)),
                       email |-> sanitize_string(email), role |-> sanitize_string(role)],
                      today)
  IN IF c.err # "none" THEN c
     ELSE [store |-> c.store, err |-> "KeyError", by |-> "code", id |-> 0,
           fields |-> {"email"}]

\* UserService.create_user
create_user(st, nid, username, email, password, role, today) ==
  LET v == CreateUserValidated(username, email, password, role)
  IN IF v.errors # {} THEN Rejected(st, 0, v.errors)
     ELSE IF CreateUserCheckUsername(st, v.data).err # "none"
     THEN CreateUserCheckUsername(st, v.data)
     ELSE CreateUserAfterCheck(st, nid, v.data, today)

\* UserService.update_user
update_user(st, i, user_data, today) ==
  LET v == validate_and_sanitize_user_data(user_data)
      d == v.data
      user == st[i]
      changed == {c \in {"username", "email", "role"} : c \in DOMAIN d /\ d[c] # user[c]}
      taken == {c \in changed \cap {"username", "email"} :
                  find_by(st, c, d[c]).id \notin {0, i}}
      update_data == [c \in changed |-> d[c]]
      r1 == IF changed = {}
            THEN [store |-> st, err |-> "none", by |-> "none", id |-> i, fields |-> {}]
            ELSE RepoUpdate("User", st, i, update_data, today)
  IN IF v.errors # {} THEN Rejected(st, i, v.errors)
     ELSE IF taken # {}
     THEN [store |-> st, err |-> "ValueError", by |-> "precheck", id |-> i,
           fields |-> IF "username" \in taken THEN {"username"} ELSE {"email"}]
     ELSE IF r1.err # "none" \/ "password" \notin DOMAIN d THEN r1
     ELSE Flush("User", r1.store, i,
                [r1.store[i] EXCEPT !.password_hash = generate_password_hash(d["password"])],
                today, FALSE)

\* UserRepository.authenticate: check_password_hash raises on a None hash
authenticate(st, username, password) ==
  LET f == find_by(st, "username", username) IN
  IF f.id = 0 THEN [err |-> "none", by |-> "none", res |-> 0]
  ELSE IF st[f.id].password_hash = None
  THEN [err |-> "AttributeError", by |-> "code", res |-> 0]
  ELSE IF ~check_password_hash(st[f.id].password_hash, password)
  THEN [err |-> "none", by |-> "none", res |-> 0]
  ELSE [err |-> "none", by |-> "none", res |-> f.id]

\* UserService.authenticate_user
authenticate_user(st, username, password) ==
  authenticate(st, ToLower(sanitize_string(username)), password)

(***************************************************************************)
(* Values the calls are made with                                          *)
(***************************************************************************)
LogA == Rep("A", 5)
LogB == Rep("B", 5)
LogBad == Rep("-", 5)
T1 == <<"T", "1">>
T2 == <<"T", "2">>
Zip1 == Rep("1", 5)
ZipBad == Rep("1", 4)
UserA == <<"a", "n", "n">>
UserB == <<"B", "o", "b">>
UserShort == <<"a", "l">>
EmailA == <<"a", "@", "x", ".", "c", "o">>
EmailB == <<"b", "@", "x", ".", "c", "o">>
EmailBad == <<"b", "@", "x">>
Pw8 == Rep("p", 8)
RoleUser == <<"u", "s", "e", "r">>
RoleAdmin == <<"a", "d", "m", "i", "n">>

\* payloads of create calls
CreateInputs(k) ==
  CASE k = "Order" ->
         {[log |-> LogA, title |-> T1, dueout |-> 1],
          [log |-> LogB, title |-> T1, dueout |-> Null],
          [log |-> LogBad, title |-> T1, dueout |-> Null],
          [log |-> LogB, title |-> T1, print_n |-> 0],
          [log |-> LogB, title |-> T1, subtotal |-> -1],
          [log |-> LogB, title |-> T1, datin |-> 2, dueout |-> 1],
          [log |-> LogB, title |-> T1, logtype |-> <<"X","X">>]}
    [] k = "Customer" ->
         {[cust_id |-> LogA, customer |-> T1, zip |-> Zip1],
          [cust_id |-> LogB, customer |-> T1, zip |-> Zip1],
          [cust_id |-> LogA, customer |-> T1, zip |-> ZipBad],
          [cust_id |-> LogBad, customer |-> T1, zip |-> Zip1],
          [cust_id |-> LogB, customer |-> T1, customer_email |-> EmailBad]}
    [] k = "User" ->
         {[username |-> UserA, email |-> EmailA, role |-> RoleUser],
          [username |-> ToLower(UserB), email |-> EmailB, role |-> RoleUser],
          [username |-> ToLower(UserB), email |-> EmailA, role |-> RoleUser],
          [username |-> UserShort, email |-> EmailB, role |-> RoleUser]}

\* payloads of update calls
UpdateInputs(k) ==
  CASE k = "Order" -> {[title |-> T2], [log |-> LogB], [log |-> LogBad]}
    [] k = "Customer" -> {[customer |-> T2], [cust_id |-> LogB], [cust_id |-> LogBad]}
    [] k = "User" ->
         {[username |-> ToLower(UserB)], [email |-> EmailB], [username |-> UserShort]}

\* arguments of create_user
CreateUserInputs ==
  {[username |-> UserA, email |-> EmailA, password |-> Pw8, role |-> RoleUser],
   [username |-> UserB, email |-> EmailB, password |-> Pw8, role |-> RoleUser],
   [username |-> UserA, email |-> EmailB, password |-> Pw8, role |-> RoleUser],
   [username |-> UserShort, email |-> EmailA, password |-> Pw8, role |-> RoleUser]}

(***************************************************************************)
(* State                                                                   *)
(*   kind    the table this behaviour is about                             *)
(*   store   id -> committed row, NoRow where there is none                *)
(*   nextId  the next primary key the store assigns                        *)
(*   now     the clock (datetime.now() and date.today())                   *)
(*   last    the most recent call: operation, target, payload, outcome     *)
(*   snap    the row the latest delete call found, kept until another      *)
(*           write than a restore of that row; restored once restore ran   *)
(*   req     the API create requests in flight: position, JSON body,       *)
(*           exception met and HTTP status answered                        *)
(***************************************************************************)
NoCall ==
  [op |-> "none", id |-> 0, data |-> <<>>, err |-> "none", by |-> "none",
   fields |-> {}, res |-> 0]
NoSnap == [id |-> 0, row |-> NoRow, restored |-> FALSE]
Procs == {1, 2}
Idle == [pc |-> "idle", data |-> <<>>, err |-> "none", by |-> "none", status |-> 0]
NoReq == [p \in Procs |-> Idle]

Call(op, i, data, r, res) ==
  [op |-> op, id |-> i, data |-> data, err |-> r.err, by |-> r.by,
   fields |-> r.fields, res |-> res]

Init ==
  /\ kind \in Kinds
  /\ store = [i \in Ids |-> NoRow]
  /\ nextId = 1
  /\ now = 0
  /\ last = NoCall
  /\ snap = NoSnap
  /\ req = NoReq

\* the clock advances
Tick ==
  /\ now < MaxNow
  /\ now' = now + 1
  /\ UNCHANGED <<kind, store, nextId, last, snap, req>>

\* a create call's effect on the store and the id counter
Created(op, data, r) ==
  /\ store' = r.store
  /\ nextId' = IF r.err = "none" THEN nextId + 1 ELSE nextId
  /\ last' = Call(op, IF r.err = "none" THEN r.id ELSE 0, data, r,
                  IF r.err = "none" THEN r.id ELSE 0)
  /\ snap' = NoSnap
  /\ UNCHANGED <<kind, now, req>>

\* repository.create(data)
RepositoryCreate(data) ==
  /\ nextId <= MaxId
  /\ Created("repo_create", data, RepoCreate(kind, store, nextId, data, now))

\* service.create(data): create_order, create_customer
Create(data) ==
  /\ nextId <= MaxId
  /\ Created("create", data, ServiceCreate(kind, store, nextId, data, now))

\* user_service.create_user(username, email, password, role)
CreateUser(a) ==
  /\ kind = "User"
  /\ nextId <= MaxId
  /\ Created("create_user", a,
             create_user(store, nextId, a.username, a.email, a.password, a.role, now))

\* a write to an existing entity
Written(op, i, data, r) ==
  /\ store' = r.store
  /\ last' = Call(op, i, data, r, IF r.err = "none" THEN i ELSE 0)
  /\ UNCHANGED <<kind, nextId, now, req>>

\* repository.update(entity, data)
RepositoryUpdate(i, data) ==
  /\ Exists(store, i)
  /\ Written("repo_update", i, data, RepoUpdate(kind, store, i, data, now))
  /\ snap' = NoSnap

\* service.update(entity, data): update_order, update_customer
Update(i, data) ==
  /\ Exists(store, i)
  /\ Written("update", i, data, ServiceUpdate(kind, store, i, data, now))
  /\ snap' = NoSnap

\* service.delete(entity) -> repository.delete(entity)
Delete(i) ==
  /\ Exists(store, i)
  /\ Written("delete", i, <<>>, RepoDelete(kind, store, i, now))
  /\ snap' = [id |-> i, row |-> store[i], restored |-> FALSE]

\* service.restore(entity) -> repository.restore(entity)
Restore(i) ==
  /\ Exists(store, i)
  /\ Written("restore", i, <<>>, RepoRestore(kind, store, i, now))
  /\ snap' = IF snap.id = i /\ ~snap.restored
             THEN [snap EXCEPT !.restored = TRUE] ELSE NoSnap

\* service.restore(entity) on an entity whose row was hard-deleted: the
\* object is detached from the session, so the commit writes nothing
RestoreDetached(i) ==
  /\ i < nextId
  /\ ~Exists(store, i)
  /\ last' = [op |-> "restore", id |-> i, data |-> <<>>, err |-> "none", by |-> "none",
              fields |-> {}, res |-> i]
  /\ snap' = NoSnap
  /\ UNCHANGED <<kind, store, nextId, now, req>>

\* service.hard_delete(entity) -> repository.hard_delete(entity)
HardDelete(i) ==
  /\ Exists(store, i)
  /\ Written("hard_delete", i, <<>>, RepoHardDelete(kind, store, i))
  /\ snap' = NoSnap

\* service.get_by_id(id) -> repository.get_by_id(id)
GetById(i) ==
  /\ last' = [op |-> "get_by_id", id |-> i, data |-> <<>>, err |-> "none", by |-> "none",
              fields |-> {}, res |-> IF get_by_id(store, i) = NoRow THEN 0 ELSE i]
  /\ UNCHANGED <<kind, store, nextId, now, snap, req>>

Next ==
  \/ Tick
  \/ \E data \in CreateInputs(kind) : RepositoryCreate(data)
  \/ \E data \in CreateInputs(kind) : Create(data)
  \/ \E a \in CreateUserInputs : CreateUser(a)
  \/ \E i \in Ids : \E data \in UpdateInputs(kind) : RepositoryUpdate(i, data)
  \/ \E i \in Ids : \E data \in UpdateInputs(kind) : Update(i, data)
  \/ \E i \in Ids : Delete(i)
  \/ \E i \in Ids : Restore(i)
  \/ \E i \in Ids : RestoreDetached(i)
  \/ \E i \in Ids : HardDelete(i)
  \/ \E i \in Ids : GetById(i)

Spec == Init /\ [][Next]_vars

TypeOK == kind \in Kinds /\ now \in Days /\ nextId \in 1..(MaxId + 1)

(***************************************************************************)
(* The due-out report: orders with a log type, a due date and a ship date, *)
(* read through OrderService.get_dueouts(start, end).                      *)
(***************************************************************************)
DueInputs ==
  {[log |-> LogA, logtype |-> <<"T","R">>, dueout |-> 2],
   [log |-> LogB, logtype |-> <<"A","A">>, dueout |-> 1],
   [log |-> LogB, logtype |-> <<"V","G">>, dueout |-> 1],
   [log |-> LogA, logtype |-> <<"D","T","F">>, dueout |-> Null]}

\* the order ships
DueUpdates == {[datout |-> 1]}

InitDue ==
  /\ kind = "Order"
  /\ store = [i \in Ids |-> NoRow]
  /\ nextId = 1
  /\ now = 0
  /\ last = NoCall
  /\ snap = NoSnap
  /\ req = NoReq

\* order_service.get_dueouts(start, end) -> repository.get_dueouts(start, end)
GetDueouts(start, end) ==
  /\ kind = "Order"
  /\ \E r \in get_dueouts(store, start, end) :
       last' = [op |-> "get_dueouts", id |-> 0, data |-> [start |-> start, end |-> end],
                err |-> "none", by |-> "none", fields |-> {}, res |-> r]
  /\ UNCHANGED <<kind, store, nextId, now, snap, req>>

NextDue ==
  \/ Tick
  \/ \E data \in DueInputs : RepositoryCreate(data)
  \/ \E i \in Ids : \E data \in DueUpdates : RepositoryUpdate(i, data)
  \/ \E i \in Ids : Delete(i)
  \/ \E start \in Days \cup {Null} : \E end \in Days \cup {Null} : GetDueouts(start, end)

DueSpec == InitDue /\ [][NextDue]_vars

(***************************************************************************)
(* Users: UserService.update_user and authenticate_user, and the           *)
(* /api/users routes called by a logged-in user (current_user is loaded    *)
(* with get_by_id, so the caller is always an active row).                 *)
(***************************************************************************)
PwBad == Rep("q", 8)

\* rows as repository.create stores them; the last one is the row
\* create_user holds between its two commits, without a password hash
UserSeeds ==
  {[username |-> UserA, email |-> EmailA, role |-> RoleUser,
    password_hash |-> generate_password_hash(Pw8)],
   [username |-> ToLower(UserB), email |-> EmailB, role |-> RoleAdmin,
    password_hash |-> generate_password_hash(Pw8)],
   [username |-> ToLower(UserB), email |-> EmailB, role |-> RoleUser]}

\* payloads of update_user and of PUT /api/users/<id>
UserUpdates ==
  {[email |-> EmailB], [email |-> EmailBad], [username |-> UserB],
   [role |-> RoleAdmin], [password |-> PwBad]}

InitUser ==
  /\ kind = "User"
  /\ store = [i \in Ids |-> NoRow]
  /\ nextId = 1
  /\ now = 0
  /\ last = NoCall
  /\ snap = NoSnap
  /\ req = NoReq

\* user_service.update_user(user, user_data)
UpdateUser(i, data) ==
  /\ kind = "User"
  /\ Exists(store, i)
  /\ Written("update_user", i, data, update_user(store, i, data, now))
  /\ snap' = NoSnap

\* user_service.authenticate_user(username, password)
Authenticate(username, password) ==
  /\ kind = "User"
  /\ LET r == authenticate_user(store, username, password) IN
     last' = [op |-> "authenticate_user", id |-> 0,
              data |-> [username |-> username, password |-> password],
              err |-> r.err, by |-> r.by, fields |-> {}, res |-> r.res]
  /\ UNCHANGED <<kind, store, nextId, now, snap, req>>

Refused(st, i, status) ==
  [store |-> st, err |-> "HTTPException", by |-> "route", id |-> i, fields |-> {},
   status |-> status]

\* the response to what the service call returned or raised
Responded(r, ok) ==
  [store |-> r.store, err |-> r.err, by |-> r.by, id |-> r.id, fields |-> r.fields,
   status |-> IF r.err = "none" THEN ok ELSE IF r.err = "ValueError" THEN 400 ELSE 500]

\* the sanitized_data dictionary of PUT /api/users/<id>
ApiSanitized(body) ==
  [c \in DOMAIN body \cap {"username", "email", "password", "role"} |->
     IF c = "password" THEN body[c] ELSE sanitize_string(body[c])]

\* PUT /api/users/<id> without the test on the role key
api_update_user_no_role_check(st, caller, i, body, today) ==
  IF i # caller /\ st[caller].role # RoleAdmin THEN Refused(st, i, 403)
  ELSE IF DOMAIN body = {} THEN Refused(st, i, 400)
  ELSE IF get_by_id(st, i) = NoRow THEN Refused(st, i, 404)
  ELSE Responded(update_user(st, i, ApiSanitized(body), today), 200)

\* PUT /api/users/<id> called by the user with id caller
api_update_user(st, caller, i, body, today) ==
  IF i # caller /\ st[caller].role # RoleAdmin THEN Refused(st, i, 403)
  ELSE IF DOMAIN body = {} THEN Refused(st, i, 400)
  ELSE IF get_by_id(st, i) = NoRow THEN Refused(st, i, 404)
  ELSE IF "role" \in DOMAIN ApiSanitized(body) /\ st[caller].role # RoleAdmin
  THEN Refused(st, i, 403)
  ELSE Responded(update_user(st, i, ApiSanitized(body), today), 200)

\* DELETE /api/users/<id>: admin_required, not oneself
api_delete_user(st, caller, i, today) ==
  IF st[caller].role # RoleAdmin THEN Refused(st, i, 403)
  ELSE IF i = caller THEN Refused(st, i, 403)
  ELSE IF get_by_id(st, i) = NoRow THEN Refused(st, i, 404)
  ELSE LET r == RepoDelete("User", st, i, today) IN
       [store |-> r.store, err |-> r.err, by |-> r.by, id |-> i, fields |-> r.fields,
        status |-> IF r.err = "none" THEN 204 ELSE 500]

\* POST /api/users: admin_required, then create_user
api_create_user(st, caller, nid, body, today) ==
  IF st[caller].role # RoleAdmin THEN Refused(st, 0, 403)
  ELSE IF {"username", "email", "password"} \ DOMAIN body # {} THEN Refused(st, 0, 400)
  ELSE Responded(create_user(st, nid, sanitize_string(body.username),
                             sanitize_string(body.email), body.password,
                             sanitize_string(IF "role" \in DOMAIN body
                                             THEN body.role ELSE RoleUser),
                             today), 201)

\* POST /api/auth/login.  abort(401) is raised inside the try block and
\* HTTPException is an Exception, so the last except clause answers it
api_login(st, body) ==
  IF {"username", "password"} \ DOMAIN body # {}
  THEN [status |-> 400, err |-> "HTTPException", by |-> "route", user |-> 0]
  ELSE LET r == authenticate_user(st, sanitize_string(body.username), body.password)
       IN IF r.err = "ValueError"
          THEN [status |-> 400, err |-> r.err, by |-> r.by, user |-> 0]
          ELSE IF r.err # "none"
          THEN [status |-> 500, err |-> r.err, by |-> r.by, user |-> 0]
          ELSE IF r.res = 0
          THEN [status |-> 500, err |-> "HTTPException", by |-> "route", user |-> 0]
          ELSE [status |-> 200, err |-> "none", by |-> "none", user |-> r.res]

\* auth.routes.get_user: select by username, no deleted_at filter
get_user(st, username) ==
  {i \in Ids : Exists(st, i) /\ st[i].username = username}

\* User.check_password on the row the login form named
check_password(st, i, password) ==
  IF st[i].password_hash = None
  THEN [err |-> "AttributeError", ok |-> FALSE]
  ELSE [err |-> "none", ok |-> check_password_hash(st[i].password_hash, password)]

\* POST /auth/login by a visitor who is not logged in: user is the row
\* login_user is called with, 0 when the form is answered with the flash
\* message
login(st, username, password) ==
  LET found == get_user(st, ToLower(username)) IN
  IF found = {} THEN [err |-> "none", user |-> 0]
  ELSE IF Cardinality(found) > 1 THEN [err |-> "MultipleResultsFound", user |-> 0]
  ELSE LET i == CHOOSE x \in found : TRUE
           c == check_password(st, i, password)
       IN IF c.err # "none" THEN [err |-> c.err, user |-> 0]
          ELSE IF ~c.ok THEN [err |-> "none", user |-> 0]
          ELSE [err |-> "none", user |-> i]

\* a request to a /api/users route and its effect
ApiCall(op, caller, i, body, r) ==
  /\ store' = r.store
  /\ last' = [op |-> op, id |-> i, data |-> [caller |-> caller, body |-> body],
              err |-> r.err, by |-> r.by, fields |-> r.fields, res |-> r.status]
  /\ snap' = NoSnap
  /\ UNCHANGED <<kind, now, req>>

ApiUpdateUser(caller, i, body) ==
  /\ kind = "User"
  /\ Active(store, caller)
  /\ ApiCall("api_update_user", caller, i, body, api_update_user(store, caller, i, body, now))
  /\ UNCHANGED nextId

ApiDeleteUser(caller, i) ==
  /\ kind = "User"
  /\ Active(store, caller)
  /\ ApiCall("api_delete_user", caller, i, <<>>, api_delete_user(store, caller, i, now))
  /\ UNCHANGED nextId

ApiCreateUser(caller, body) ==
  /\ kind = "User"
  /\ Active(store, caller)
  /\ nextId <= MaxId
  /\ LET r == api_create_user(store, caller, nextId, body, now) IN
     /\ ApiCall("api_create_user", caller, 0, body, r)
     /\ nextId' = IF r.err = "none" THEN nextId + 1 ELSE nextId

\* request bodies of POST /api/auth/login
LoginBodies ==
  {[username |-> u, password |-> pw] : u \in {UserA, UserB}, pw \in {Pw8, PwBad}}
    \cup {[username |-> UserA]}

\* a read-only request and what it answered
Asked(op, data, err, res) ==
  /\ last' = [op |-> op, id |-> 0, data |-> data, err |-> err,
              by |-> IF err = "none" THEN "none" ELSE "code", fields |-> {}, res |-> res]
  /\ UNCHANGED <<kind, store, nextId, now, snap, req>>

ApiLogin(body) ==
  /\ kind = "User"
  /\ LET r == api_login(store, body) IN
     last' = [op |-> "api_login", id |-> r.user, data |-> body, err |-> r.err,
              by |-> r.by, fields |-> {}, res |-> r.status]
  /\ UNCHANGED <<kind, store, nextId, now, snap, req>>

\* the login form is posted
Login(username, password) ==
  /\ kind = "User"
  /\ LET r == login(store, username, password) IN
     Asked("login", [username |-> username, password |-> password], r.err, r.user)

\* repository.find_by(role=role)
FindBy(role) ==
  /\ kind = "User"
  /\ LET r == find_by(store, "role", role) IN
     Asked("find_by", [role |-> role], r.err, r.id)

NextUser ==
  \/ \E data \in UserSeeds : RepositoryCreate(data)
  \/ \E i \in Ids : \E data \in UserUpdates : UpdateUser(i, data)
  \/ \E u \in {UserA, UserB} : \E pw \in {Pw8, PwBad} : Authenticate(u, pw)
  \/ \E c \in Ids : \E i \in Ids : \E body \in UserUpdates : ApiUpdateUser(c, i, body)
  \/ \E c \in Ids : \E i \in Ids : ApiDeleteUser(c, i)
  \/ \E c \in Ids : \E body \in CreateUserInputs : ApiCreateUser(c, body)
  \/ \E body \in LoginBodies : ApiLogin(body)
  \/ \E u \in {UserA, UserB} : \E pw \in {Pw8, PwBad} : Login(u, pw)
  \/ \E role \in {RoleUser, RoleAdmin} : FindBy(role)
  \/ \E i \in Ids : Restore(i)

UserSpec == InitUser /\ [][NextUser]_vars

(***************************************************************************)
(* Concurrent create requests through the JSON API.  A request reads the   *)
(* store in its pre-check and writes it in its create call; other requests *)
(* run between the two.                                                    *)
(***************************************************************************)
RaceInputs(k) ==
  CASE k = "Order" -> {[log |-> LogA, title |-> T1], [log |-> LogB, title |-> T1]}
    [] k = "Customer" -> {[cust_id |-> LogA, zip |-> Zip1], [cust_id |-> LogB, zip |-> Zip1]}
    [] k = "User" ->
         {[username |-> UserA, email |-> EmailA, password |-> Pw8, role |-> RoleUser],
          [username |-> UserB, email |-> EmailB, password |-> Pw8, role |-> RoleUser]}

InitRace ==
  /\ kind \in Kinds
  /\ store = [i \in Ids |-> NoRow]
  /\ nextId = 1
  /\ now = 0
  /\ last = NoCall
  /\ snap = NoSnap
  /\ req \in [Procs -> {[pc |-> "start", data |-> d, err |-> "none", by |-> "none",
                         status |-> 0] : d \in RaceInputs(kind)}]

\* except ValueError: abort(400); except Exception: abort(500); else 201
StatusOf(r) ==
  IF r.err = "none" THEN 201 ELSE IF r.err = "ValueError" THEN 400 ELSE 500

Answer(p, r, status) ==
  req' = [req EXCEPT ![p] = [pc |-> "done", data |-> req[p].data, err |-> r.err,
                             by |-> r.by, status |-> status]]

\* the part of a create request before its write:
\*   POST /api/orders     check_order_exists(log), abort(409) when it holds
\*   POST /api/customers  no pre-check
\*   POST /api/users      create_user up to get_user_by_username
ApiCheck(p) ==
  /\ req[p].pc = "start"
  /\ LET d == req[p].data IN
     CASE kind = "Order" ->
            IF "log" \in DOMAIN d /\ exists(store, "log", d.log)
            THEN Answer(p, [err |-> "Conflict", by |-> "precheck"], 409)
            ELSE req' = [req EXCEPT ![p].pc = "checked"]
       [] kind = "Customer" -> req' = [req EXCEPT ![p].pc = "checked"]
       [] kind = "User" ->
            LET v == CreateUserValidated(d.username, d.email, d.password, d.role) IN
            IF v.errors # {} THEN Answer(p, Rejected(store, 0, v.errors), 400)
            ELSE IF CreateUserCheckUsername(store, v.data).err # "none"
            THEN Answer(p, CreateUserCheckUsername(store, v.data), 400)
            ELSE req' = [req EXCEPT ![p].pc = "checked"]
  /\ UNCHANGED <<kind, store, nextId, now, last, snap>>

\* the row a create_user request inserted in its first commit
InsertedBy(st, d) ==
  CHOOSE i \in Ids :
    Exists(st, i) /\ st[i].username = ToLower(sanitize_string(d.username))

\* the writes of the request and its response: one commit for an order or
\* a customer; for a user the insert commit, then, as a later step, the
\* commit of the password hash
ApiCreate(p) ==
  /\ req[p].pc \in {"checked", "inserted"}
  /\ req[p].pc = "checked" => nextId <= MaxId
  /\ LET d == req[p].data
         v == CreateUserValidated(d.username, d.email, d.password, d.role).data
         r == IF kind # "User" THEN ServiceCreate(kind, store, nextId, d, now)
              ELSE IF req[p].pc = "checked" THEN CreateUserInsert(store, nextId, v, now)
              ELSE CreateUserSetPassword(store, InsertedBy(store, d), v, now)
     IN /\ store' = r.store
        /\ nextId' = IF req[p].pc = "checked" /\ r.err = "none"
                     THEN nextId + 1 ELSE nextId
        /\ IF kind = "User" /\ req[p].pc = "checked" /\ r.err = "none"
           THEN req' = [req EXCEPT ![p].pc = "inserted"]
           ELSE Answer(p, r, StatusOf(r))
  /\ UNCHANGED <<kind, now, last, snap>>

\* another request soft-deletes a row: DELETE /api/<table>/<id>
ApiDelete(i) ==
  /\ Active(store, i)
  /\ store' = RepoDelete(kind, store, i, now).store
  /\ UNCHANGED <<kind, nextId, now, last, snap, req>>

NextRace ==
  \/ \E p \in Procs : ApiCheck(p)
  \/ \E p \in Procs : ApiCreate(p)
  \/ \E i \in Ids : ApiDelete(i)
  \/ \E u \in {UserA, UserB} : Authenticate(u, Pw8)

RaceSpec == InitRace /\ [][NextRace]_vars

(***************************************************************************)
(* The two order validators and OrderRepository.apply_sort as functions    *)
(* of their arguments: an argument is drawn at the start and the function  *)
(* is applied to it.                                                       *)
(***************************************************************************)
\* order values given to both validators
OrderValues ==
  [log : {LogA, Rep("A", 6)}, cust : {LogA, Rep("A", 4)}, title : {T1, Rep("T", 101)},
   print_n : {0, 1}, colorf : {0, -1}, logtype : {<<"T","R">>, <<"X","X">>},
   datin : {Null, 1}, artout : {Null, 0}, dueout : {Null, 0}, datout : {Null}]

Comma == ","
Minus == "-"

\* str.split(','): the pieces of s between the commas, at least one
RECURSIVE Split(_)
Split(s) ==
  IF \A n \in DOMAIN s : s[n] # Comma THEN <<s>>
  ELSE LET n == CHOOSE x \in DOMAIN s :
                  s[x] = Comma /\ \A y \in 1..(x - 1) : s[y] # Comma
       IN <<SubSeq(s, 1, n - 1)>> \o Split(SubSeq(s, n + 1, Len(s)))

\* the names of the columns of the orders table, as strings of characters
ColumnName(c) ==
  CASE c = "log" -> <<"l","o","g">>
    [] c = "cust" -> <<"c","u","s","t">>
    [] c = "title" -> <<"t","i","t","l","e">>
    [] c = "dueout" -> <<"d","u","e","o","u","t">>
    [] OTHER -> <<>>

SortColumns == {"log", "cust", "title", "dueout"}

\* getattr(self.model, name): the column with that name, "" when the model
\* has no such attribute
GetAttr(name) ==
  IF \E c \in SortColumns : ColumnName(c) = name
  THEN CHOOSE c \in SortColumns : ColumnName(c) = name
  ELSE ""

\* one element of the list comprehension of apply_sort: s[0] is read, and
\* s[1:] is looked up in both branches
SortTerm(s) ==
  IF s = <<>> THEN [err |-> "IndexError", col |-> "", desc |-> FALSE]
  ELSE IF GetAttr(Tail(s)) = ""
  THEN [err |-> "AttributeError", col |-> "", desc |-> FALSE]
  ELSE [err |-> "none", col |-> GetAttr(Tail(s)), desc |-> (Head(s) = Minus)]

\* OrderRepository.apply_sort: the order_by terms given to the query
apply_sort(sort_argument) ==
  IF sort_argument = None \/ sort_argument = <<>> THEN [err |-> "none", order_by |-> <<>>]
  ELSE LET parts == Split(sort_argument)
           terms == [n \in DOMAIN parts |-> SortTerm(parts[n])]
       IN IF \E n \in DOMAIN terms : terms[n].err # "none"
          THEN [err |-> terms[CHOOSE n \in DOMAIN terms :
                                /\ terms[n].err # "none"
                                /\ \A m \in 1..(n - 1) : terms[m].err = "none"].err,
                order_by |-> <<>>]
          ELSE [err |-> "none",
                order_by |-> [n \in DOMAIN terms |->
                                [col |-> terms[n].col, desc |-> terms[n].desc]]]

\* values of the sort query parameter
SortArguments ==
  {ColumnName("log"), <<Minus>> \o ColumnName("log"),
   ColumnName("log") \o <<Comma>> \o ColumnName("title"),
   <<Minus>> \o ColumnName("log") \o <<Comma>> \o ColumnName("title"),
   <<Minus>> \o ColumnName("dueout") \o <<Comma, Minus>> \o ColumnName("log"),
   ColumnName("cust")}

InitFunc ==
  /\ kind = "Order"
  /\ store = [i \in Ids |-> NoRow]
  /\ nextId = 1
  /\ now \in Days
  /\ \E d \in OrderValues \cup {[sort |-> s] : s \in SortArguments} :
       last = [op |-> "argument", id |-> 0, data |-> d, err |-> "none", by |-> "none",
               fields |-> {}, res |-> {}]
  /\ snap = NoSnap
  /\ req = NoReq

\* validate_and_sanitize_order_data(data) and Order(**data).validate_data()
\* on the same values: fields is what the first rejects, res what the second
ValidateOrder ==
  /\ last.op = "argument"
  /\ "sort" \notin DOMAIN last.data
  /\ LET v == validate_and_sanitize_order_data(last.data, now)
         e == OrderValidateData(SetAttrs("Order", NewEntity("Order"), last.data), now)
     IN last' = [op |-> "validate_order", id |-> 0, data |-> last.data,
                 err |-> IF v.errors # {} THEN "ValueError" ELSE "none",
                 by |-> IF v.errors # {} THEN "validator" ELSE "none",
                 fields |-> v.errors, res |-> e]
  /\ UNCHANGED <<kind, store, nextId, now, snap, req>>

\* order_service.order_query(query, sort_argument) -> apply_sort
ApplySort ==
  /\ last.op = "argument"
  /\ "sort" \in DOMAIN last.data
  /\ LET r == apply_sort(last.data.sort)
     IN last' = [op |-> "apply_sort", id |-> 0, data |-> last.data, err |-> r.err,
                 by |-> IF r.err = "none" THEN "none" ELSE "code", fields |-> {},
                 res |-> r.order_by]
  /\ UNCHANGED <<kind, store, nextId, now, snap, req>>

NextFunc == ValidateOrder \/ ApplySort

FuncSpec == InitFunc /\ [][NextFunc]_vars

(***************************************************************************)
(* Properties of the repository and service calls                          *)
(***************************************************************************)
ActivePairs == {p \in get_all(store) \X get_all(store) : p[1] # p[2]}

\* C1: after any sequence of create, update, delete, restore and
\* hard_delete calls, no two rows whose deleted_at is null hold the same
\* (non-null) value in a business-key column: log, cust_id, username, email.
C1_UniqueActiveKeys ==
  \A p \in ActivePairs : \A c \in UniqueCols(kind) :
    store[p[1]][c] # None => store[p[1]][c] # store[p[2]][c]

\* an update that would have duplicated the key of another active row was
\* refused, and both rows are active
C1_Witness ==
  /\ last.op \in {"update", "repo_update"}
  /\ last.err = "IntegrityError"
  /\ Cardinality(get_all(store)) = 2

\* the typed conflict the services raise: the pre-check's ValueError
IsConflictError(call) == call.err = "ValueError" /\ call.by = "precheck"

RowsWith(col, v) == {i \in Ids : store[i] # NoRow /\ store[i][col] = v}

\* C2: of two sequential create calls with the same business key the first
\* succeeds and the second fails with a conflict error, leaving one row: a
\* service-level create with valid data either succeeds or is refused as a
\* conflict with a row that holds the key.
C2_SequentialCreates ==
  (last.op \in {"create", "create_user"} /\ last.by \notin {"validator", "hook"})
    => \/ last.err = "none"
       \/ /\ IsConflictError(last)
          /\ \E c \in last.fields : Cardinality(RowsWith(c, last.data[c])) = 1

(***************************************************************************)
(* Properties of concurrent create requests (RaceSpec)                     *)
(***************************************************************************)
SameKey(d, e) == \E c \in UniqueCols(kind) \cap DOMAIN d \cap DOMAIN e : d[c] = e[c]

\* C3: under every interleaving of two create requests that each run the
\* pre-check and then create, at most one row with a given business key is
\* ever committed, also when both pre-checks found the key absent.
C3_AtMostOneRowPerKey ==
  \A i \in Ids : \A j \in Ids : \A c \in UniqueCols(kind) :
    (i # j /\ Exists(store, i) /\ Exists(store, j) /\ store[i][c] # None)
      => store[i][c] # store[j][c]

\* both requests passed the pre-check with the same key while no row held
\* it; one committed and the unique index refused the other
C3_Witness ==
  /\ get_deleted(store) = {}
  /\ \E p \in Procs : \E q \in Procs :
       /\ p # q /\ SameKey(req[p].data, req[q].data)
       /\ req[p].pc = "done" /\ req[p].status = 201
       /\ req[q].pc = "done" /\ req[q].err = "IntegrityError" /\ req[q].by = "store"
       /\ Cardinality(get_all(store)) = 1

\* C4: a create that passed the pre-check and whose commit hit the unique
\* index is answered like the conflict the pre-check reports (409 for
\* orders), not as a raw storage exception or a generic failure.
C4_LostRaceIsConflict ==
  \A p \in Procs :
    (kind = "Order" /\ req[p].pc = "done" /\ req[p].by = "store")
      => (req[p].status = 409 /\ req[p].err = "Conflict")

\* C5: create_user with the username of a soft-deleted user, valid data and
\* no clash with an active user succeeds, and the deleted row stays deleted.
C5_DeletedUsernameReusable ==
  (/\ last.op = "create_user"
   /\ last.by \notin {"validator", "precheck"}
   /\ \E i \in get_deleted(store) :
        store[i].username = ToLower(sanitize_string(last.data.username)))
    => /\ last.err = "none"
       /\ get_by_id(store, last.res) # NoRow

\* C6: get_by_id(id) returns the entity iff a row with that id exists and
\* its deleted_at is null; otherwise it returns None and does not raise.
C6_GetByIdActiveOnly ==
  last.op = "get_by_id"
    => /\ last.err = "none"
       /\ last.res \in {0, last.id}
       /\ last.res = last.id <=> (Exists(store, last.id) /\ store[last.id].deleted_at = Null)

\* get_by_id was called on a soft-deleted row and returned None
C6_Witness ==
  /\ last.op = "get_by_id"
  /\ Exists(store, last.id)
  /\ store[last.id].deleted_at # Null
  /\ last.res = 0

\* between a delete call and the restore of the same entity
Between == snap.id # 0 /\ ~snap.restored
\* right after delete then restore of the same entity
RoundTripped == snap.id # 0 /\ snap.restored

\* C7: delete then restore then get_by_id returns the entity with every
\* other field unchanged; between the two calls get_all excludes the entity
\* and get_deleted includes it.
C7_DeleteRestoreRoundTrip ==
  /\ Between => snap.id \notin get_all(store) /\ snap.id \in get_deleted(store)
  /\ RoundTripped => get_by_id(store, snap.id) = [snap.row EXCEPT !.deleted_at = Null]

\* C8: a second delete of the same entity does not raise and leaves
\* deleted_at non-null, at the first call's timestamp or later.
C8_DeleteRepeatable ==
  (Between /\ last.op = "delete" /\ snap.row.deleted_at # Null)
    => /\ last.err = "none"
       /\ store[snap.id].deleted_at # Null
       /\ store[snap.id].deleted_at >= snap.row.deleted_at

\* C9: a create or update call that the service-level validator rejects
\* raises and leaves the store as it was: no row added, no field changed.
C9_RejectedInputNoWrite ==
  [][last'.by = "validator" => (store' = store /\ nextId' = nextId)]_vars

\* the validator rejected a call while the table held a row
C9_Witness ==
  /\ last.op \in {"create", "update"}
  /\ last.by = "validator"
  /\ last.err = "ValueError"
  /\ get_all(store) # {}

\* the fields of a create payload that break a rule of the entity
RuleViolations(data, today) ==
  ValidateData(kind, SetAttrs(kind, NewEntity(kind), data), today)

\* C10: a create whose input breaks a field rule (a negative subtotal, a
\* log type outside the enumeration, a malformed customer email or ZIP)
\* fails with a validation error that names every violated field, and no
\* row is persisted.
C10_InvalidCreateRejected ==
  [][(/\ last'.op \in {"create", "create_user"}
      /\ now' = now
      /\ RuleViolations(last'.data, now) # {})
       => /\ last'.err = "ValueError"
          /\ last'.by \in {"validator", "hook"}
          /\ RuleViolations(last'.data, now) \subseteq last'.fields
          /\ store' = store]_vars

\* C11: a successful service-level create followed at once by get_by_id of
\* the returned id yields an entity equal to the payload on every field the
\* payload provided.
C11_CreateThenGetEqualsInput ==
  (last.op = "create" /\ last.err = "none")
    => /\ get_by_id(store, last.res) # NoRow
       /\ \A c \in DOMAIN last.data \cap Columns(kind) :
            get_by_id(store, last.res)[c] = last.data[c]

RepoWriteOps == {"repo_create", "create", "repo_update", "update", "delete", "restore"}

C13_FailedWriteRolledBack ==
  [][(/\ last'.op \in RepoWriteOps
      /\ last'.by \in {"hook", "store"}
      /\ now' = now)
       => (last'.err # "none" /\ store' = store /\ nextId' = nextId)]_vars

\* the listener refused the commit of a delete or restore of a stored row
C13_Witness ==
  /\ last.op \in {"delete", "restore"}
  /\ last.err = "ValueError"
  /\ last.by = "hook"
  /\ Exists(store, last.id)

\* C20: hard_delete removes the row for good: no read (get_by_id, find_by,
\* get_all, get_deleted, get_all_including_deleted) returns the entity
\* afterwards and no later call, restore included, brings the row back;
\* after a soft delete the row is still there, in get_deleted and in
\* get_all_including_deleted.
C20_HardDeleteIsFinal ==
  [][/\ \A i \in Ids : (i < nextId /\ ~Exists(store, i)) => ~Exists(store', i)
     /\ (last'.op = "hard_delete" /\ now' = now)
          => /\ last'.err = "none"
             /\ get_by_id(store', last'.id) = NoRow
             /\ last'.id \notin get_all(store') \cup get_deleted(store')
                                \cup get_all_including_deleted(store')
             /\ \A c \in UniqueCols(kind) :
                  find_by(store', c, store[last'.id][c]).id # last'.id
     /\ (last'.op = "delete" /\ last'.err = "none" /\ now' = now)
          => /\ last'.id \in get_deleted(store')
             /\ last'.id \in get_all_including_deleted(store')]_vars

\* restore was called on an entity whose row had been hard-deleted, and the
\* row is still gone
C20_Witness ==
  /\ last.op = "restore"
  /\ last.err = "none"
  /\ ~Exists(store, last.id)
  /\ last.id \notin get_all_including_deleted(store)

(***************************************************************************)
(* Properties of the due-out report (DueSpec)                              *)
(***************************************************************************)
\* C14: get_dueouts(start, end) returns exactly the non-deleted orders whose
\* log type is TR, DP, AA or DTF, whose datout is null and whose dueout is
\* set and within [start, end] (each bound applied only when given), each
\* once, in ascending order of dueout; no returned order has a datout.
C14_DueoutsExact ==
  last.op = "get_dueouts" =>
    LET r == last.res
        wanted == {i \in Ids :
                     /\ Active(store, i)
                     /\ store[i].logtype \in {<<"T","R">>, <<"D","P">>, <<"A","A">>,
                                               <<"D","T","F">>}
                     /\ store[i].datout = Null
                     /\ store[i].dueout # Null
                     /\ (last.data.start # Null => store[i].dueout >= last.data.start)
                     /\ (last.data.end # Null => store[i].dueout <= last.data.end)}
    IN /\ {r[n] : n \in DOMAIN r} = wanted
       /\ Len(r) = Cardinality(wanted)
       /\ \A a \in DOMAIN r : \A b \in DOMAIN r :
            a <= b => store[r[a]].dueout <= store[r[b]].dueout
       /\ \A n \in DOMAIN r : store[r[n]].datout = Null

\* a bounded report returned one order and left out a shipped order whose
\* due date is inside the bounds
C14_Witness ==
  /\ last.op = "get_dueouts"
  /\ last.data.start # Null /\ last.data.end # Null
  /\ Len(last.res) = 1
  /\ \E i \in Ids :
       /\ Active(store, i) /\ store[i].datout # Null /\ store[i].dueout # Null
       /\ store[i].logtype \in DueLogtypes
       /\ store[i].dueout >= last.data.start /\ store[i].dueout <= last.data.end

(***************************************************************************)
(* Properties of the user service and the /api/users routes                *)
(***************************************************************************)
\* the username as the user service stores and looks it up
Normalized(username) == ToLower(sanitize_string(username))

\* C15: create_user with a valid username, email, password of at least 8
\* characters and role, none held by another active user, succeeds and
\* leaves one new active user with the lowercased username, the email, the
\* role and a password hash that verifies the password.
C15_CreateUserSucceeds ==
  (/\ last.op = "create_user"
   /\ validate_length(last.data.username, 3, 64) /\ MatchesUsername(last.data.username)
   /\ MatchesEmail(last.data.email)
   /\ validate_length(last.data.password, 8, Null)
   /\ last.data.role \in valid_roles
   /\ \A i \in get_all(store) \ {last.res} :
        /\ store[i].username # Normalized(last.data.username)
        /\ store[i].email # last.data.email)
    => /\ last.err = "none"
       /\ get_by_id(store, last.res) # NoRow
       /\ store[last.res].username = Normalized(last.data.username)
       /\ store[last.res].email = last.data.email
       /\ store[last.res].role = last.data.role
       /\ check_password_hash(store[last.res].password_hash, last.data.password)

\* the active users a username and password authenticate
Authenticated(username, password) ==
  {i \in get_all(store) :
     /\ store[i].username = Normalized(username)
     /\ store[i].password_hash = generate_password_hash(password)}

\* C16: authenticate_user(username, password) returns the user iff an active
\* user with that username exists and the password matches its stored hash;
\* otherwise it returns None, for an unknown username as for a wrong
\* password, and never raises.
C16_AuthenticateIffMatch ==
  last.op = "authenticate_user"
    => /\ last.err = "none"
       /\ IF Authenticated(last.data.username, last.data.password) = {}
          THEN last.res = 0
          ELSE last.res \in Authenticated(last.data.username, last.data.password)

\* C17: update_user whose username or email is present, differs from the
\* user's current value and is that of another active user fails with a
\* conflict error naming the field and changes nothing.
C17_UpdateUserConflict ==
  [][(/\ last'.op = "update_user"
      /\ now' = now
      /\ \E c \in {"username", "email"} \cap DOMAIN last'.data :
           /\ last'.data[c] # store[last'.id][c]
           /\ \E j \in get_all(store) \ {last'.id} :
                store[j][c] = IF c = "username" THEN Normalized(last'.data[c])
                              ELSE last'.data[c])
       => /\ IsConflictError(last')
          /\ \E c \in last'.fields :
               /\ c \in DOMAIN last'.data
               /\ \E j \in get_all(store) \ {last'.id} :
                    store[j][c] = IF c = "username" THEN Normalized(last'.data[c])
                                  ELSE last'.data[c]
          /\ store' = store]_vars

\* C18: update_user with a valid email that differs from the current one and
\* that no other active user holds stores the email on the user.
C18_UpdateUserStoresEmail ==
  (/\ last.op = "update_user"
   /\ "email" \in DOMAIN last.data
   /\ MatchesEmail(last.data.email)
   /\ \A j \in get_all(store) \ {last.id} : store[j].email # last.data.email)
    => /\ last.err = "none"
       /\ store[last.id].email = last.data.email

IsAdmin(st, i) == st[i] # NoRow /\ st[i].role = RoleAdmin

\* C19: a request by a caller who is not an admin changes no user's role,
\* modifies no other user's row and adds no admin; PUT /api/users/<id> by
\* such a caller is answered 403 with the table unchanged when id is not
\* the caller's id or when the payload has a role.
C19_NonAdminCannotEscalate ==
  [][(/\ last'.op \in {"api_update_user", "api_delete_user", "api_create_user"}
      /\ now' = now
      /\ ~IsAdmin(store, last'.data.caller))
       => /\ \A j \in Ids : IsAdmin(store', j) => IsAdmin(store, j)
          /\ \A j \in Ids : Exists(store, j) =>
               (Exists(store', j) /\ store'[j].role = store[j].role)
          /\ \A j \in Ids \ {last'.data.caller} : store'[j] = store[j]
          /\ (/\ last'.op = "api_update_user"
              /\ (last'.id # last'.data.caller \/ "role" \in DOMAIN last'.data.body))
               => (last'.res = 403 /\ store' = store)]_vars

\* a user who is not an admin asked for a role on their own record and was
\* answered 403
C19_Witness ==
  /\ last.op = "api_update_user"
  /\ last.id = last.data.caller
  /\ ~IsAdmin(store, last.id)
  /\ "role" \in DOMAIN last.data.body
  /\ last.res = 403

\* the rules of an order row that do not depend on the day
OrderRowOK(o) ==
  /\ Truthy(o.log) => AllIn(o.log, Alnum) /\ Len(o.log) \in 5..7
  /\ Truthy(o.cust) => AllIn(o.cust, Alnum) /\ Len(o.cust) = 5
  /\ \A f \in {"print_n", "colorf", "weight", "subtotal", "sales_tax", "ship_frght",
                "total"} : o[f] = Null \/ o[f] >= 0
  /\ Truthy(o.logtype) => o.logtype \in valid_logtypes
  /\ (o.datin # Null /\ o.dueout # Null) => o.dueout >= o.datin

\* the row a repository write is about to flush
RowToWrite(st, op, i, data) ==
  IF op = "repo_create" THEN SetAttrs("Order", NewEntity("Order"), data)
  ELSE SetAttrs("Order", st[i], data)

LoginMatches(body) ==
  {i \in Ids : /\ Active(store, i)
               /\ store[i].username = ToLower(sanitize_string(body.username))
               /\ store[i].password_hash # None
               /\ check_password_hash(store[i].password_hash, body.password)}

\* C21: POST /api/auth/login answers 400 exactly when username or password
\* is missing from the body, and answers 401, not 400 or 500, when both are
\* there and no active user has that username with that password, whether
\* the username is unknown or the password is wrong.
C21_LoginFailureIs401 ==
  last.op = "api_login" =>
    IF {"username", "password"} \ DOMAIN last.data # {}
    THEN last.res = 400
    ELSE LoginMatches(last.data) = {} => last.res = 401

(***************************************************************************)
(* Properties of the validators and of apply_sort (FuncSpec)               *)
(***************************************************************************)
\* C22: for every order input over the bounded values of log, cust, title,
\* print_n, colorf, logtype and the four dates,
\* validate_and_sanitize_order_data raises exactly when Order.validate_data
\* reports at least one error for an order built from the same values.
C22_ValidatorsAgree ==
  last.op = "validate_order" => ((last.err = "ValueError") <=> (last.res # {}))

\* the order_by term a field of the sort parameter stands for: descending
\* by the name after a leading '-', ascending by the name as written
NamedTerm(s) ==
  IF s # <<>> /\ Head(s) = Minus
  THEN [col |-> GetAttr(Tail(s)), desc |-> TRUE]
  ELSE [col |-> GetAttr(s), desc |-> FALSE]

\* C24: apply_sort orders the query by each field of the comma-separated
\* sort parameter in sequence: a field with a leading '-' sorts descending
\* by the column named after the '-', a field without it (as in 'log' or
\* 'log,title') sorts ascending by exactly the column it names.
C24_SortByNamedFields ==
  last.op = "apply_sort" =>
    LET parts == Split(last.data.sort) IN
    /\ last.err = "none"
    /\ last.res = [n \in DOMAIN parts |-> NamedTerm(parts[n])]

C27_OverdueOrderWritable ==
  [][(/\ kind = "Order"
      /\ now' = now
      /\ last'.op \in {"delete", "restore", "update", "repo_update"}
      /\ last'.op \in {"update", "repo_update"} => last'.data = [title |-> T2]
      /\ Exists(store, last'.id)
      /\ (last'.op = "restore") = ~Active(store, last'.id)
      /\ store[last'.id].dueout # Null
      /\ store[last'.id].dueout < now)
       => last'.err = "none"]_vars

\* C28: when check_order_exists(log) is false and no other request comes in
\* between, create_order with that log and otherwise valid data succeeds,
\* in every store state, one where a soft-deleted order has the log
\* included.
C28_CreateAfterNegativeCheck ==
  [][(/\ kind = "Order"
      /\ now' = now
      /\ last'.op = "create"
      /\ "log" \in DOMAIN last'.data
      /\ ~exists(store, "log", last'.data.log)
      /\ validate_and_sanitize_order_data(last'.data, now).errors = {}
      /\ RuleViolations(last'.data, now) = {})
       => last'.err = "none"]_vars

(***************************************************************************)
(* Properties of login for soft-deleted users and of find_by               *)
(***************************************************************************)
\* the users, soft-deleted ones included, that a username and password name
Credentialed(username, password) ==
  {i \in Ids : /\ Exists(store, i)
               /\ store[i].username = ToLower(username)
               /\ store[i].password_hash # None
               /\ check_password_hash(store[i].password_hash, password)}

\* C29: a soft-deleted user is rejected by every login path,
\* authenticate_user and the login form alike (no user is returned and
\* login_user is not called), and is accepted again once restored: a login
\* yields a user exactly when the user named by the credentials is active.
C29_DeletedUserCannotLogIn ==
  last.op \in {"authenticate_user", "login"} =>
    LET named == Credentialed(last.data.username, last.data.password) IN
    /\ (\A i \in named : ~Active(store, i)) => last.res = 0
    /\ \A i \in named : Active(store, i) => last.res = i

\* C30: find_by never raises, for absence or for multiplicity: it returns
\* None when no active row matches the criteria and one of the matching
\* active rows otherwise, also when several active rows match (as with
\* role = 'user').
C30_FindByNeverRaises ==
  last.op = "find_by" =>
    LET m == MatchingActive(store, "role", last.data.role) IN
    /\ last.err = "none"
    /\ m = {} => last.res = 0
    /\ m # {} => last.res \in m

====
